---- MODULE Spec2Model ----
(***************************************************************************)
(* Discrete Hexagon (src/main.cpp): the pattern catalog parser, the level  *)
(* generator, the per-key game state machine and the fixed-timestep frame  *)
(* scheduler of the native build, as one state machine.                    *)
(*                                                                         *)
(* Text is modelled character by character: a token is a sequence of       *)
(* one-character strings, the pattern file a sequence of tokens (the       *)
(* whitespace between them is what fscanf's leading " " skips).            *)
(***************************************************************************)
EXTENDS Integers, Sequences, FiniteSets, TLC

VARIABLES
    file,               \* what data/patterns.txt held when ReadPatterns last opened it
    nlanes,             \* int nlanes
    patterns,           \* std::vector<Pattern> patterns
    incoming,           \* int incoming[LANES_MAX][LEVEL_LEN]
    laneAt,             \* int laneAt[HEIGHT][WIDTH], by the wedge the pixel lies in
    offset,             \* int offset
    playerLane,         \* int playerLane
    playerAlive,        \* bool playerAlive
    playerHurdling,     \* bool playerHurdling
    framesSinceAdvance, \* int framesSinceAdvance
    droppedFrames,      \* int droppedFrames
    pc,                 \* where the process is: see PcValues
    caller,             \* who called Restart(): "main" or "update"
    i,                  \* Restart's write position i
    sample,             \* Restart's type, lane0, dlane of this iteration
    e,                  \* update's SDL_Event e, the last event polled
    ticks,              \* what SDL_GetTicks() returns now
    nextFrame_ms,       \* main's nextFrame_ms
    frame,              \* what the last pass of main's loop did with its frame
    exitStatus,         \* the status the process ended with, -1 while running
    failMsg,            \* what failAny printed after "failed: ", "" if nothing
    prev,               \* history: the game state before the last key was handled
    oob                 \* history: a timeline write fell outside the array

vars == <<file, nlanes, patterns, incoming, laneAt, offset, playerLane, playerAlive,
          playerHurdling, framesSinceAdvance, droppedFrames, pc, caller, i,
          sample, e, ticks, nextFrame_ms, frame, exitStatus, failMsg, prev,
          oob>>

(***************************************************************************)
(* Program constants.                                                      *)
(***************************************************************************)
INTRO_LEN == 4

\* 300 in the source; the model is checked with a short level, every
\* statement below is written in terms of LEVEL_LEN.
LEVEL_LEN == 7

LANES_MIN == 3

LANES_MAX == 16

BAND_TYPE_NONE == 0

BAND_TYPE_WALL == 1

BAND_TYPE_HURDLE == 2

FPS == 60

FRAME_MS == 1000 \div FPS

DELAY_GRANULARITY == 10

\* char buf[256], read with %255s
BUF_CHARS == 255

\* "Anything big is fine."
FSA_BIG == 999

BAND_SIZE == 32

ANIM_SPEED == 4

(***************************************************************************)
(* Bounds of the model.                                                    *)
(***************************************************************************)
\* Advances are followed up to this many positions past the end of the level.
Overrun == 2

\* The clock is followed up to this many milliseconds.
MaxTicks == 40

\* Files of the parser's check have at most this many tokens.
MaxTokens == 5

\* The clock of the animation's check is followed up to this many milliseconds.
MaxAnimTicks == 150

\* render looks up bands -1 to MaxBand + 1.
MaxBand == 10

MaxOffset == LEVEL_LEN + Overrun

(***************************************************************************)
(* fscanf on the token stream.                                             *)
(***************************************************************************)
\* data/patterns.txt is not there: fopen returns NULL.
NoFile == [exists |-> FALSE, tokens |-> <<>>]

FileOf(tokens) == [exists |-> TRUE, tokens |-> tokens]

Digits == <<"0", "1", "2", "3", "4", "5", "6", "7", "8", "9">>

IsDigit(c) == \E d \in 1..10 : Digits[d] = c

DigitVal(c) == (CHOOSE d \in 1..10 : Digits[d] = c) - 1

\* The number of digits of tok from index k on.
RECURSIVE DigitRun(_, _)
DigitRun(tok, k) ==
    IF k <= Len(tok) /\ IsDigit(tok[k]) THEN 1 + DigitRun(tok, k + 1) ELSE 0

\* The value of the digits tok[k .. k+n-1], most significant first.
RECURSIVE DigitsValue(_, _, _)
DigitsValue(tok, k, n) ==
    IF n = 0 THEN 0
    ELSE 10 * DigitsValue(tok, k, n - 1) + DigitVal(tok[k + n - 1])

\* What is left of the stream after `used` characters of its first token.
Consume(stream, used) ==
    IF used >= Len(Head(stream)) THEN Tail(stream)
    ELSE <<SubSeq(Head(stream), used + 1, Len(Head(stream)))>> \o Tail(stream)

\* fscanf(f, " %d", &v): an optional sign and the longest run of digits at the
\* start of the next token; what follows the digits stays in the stream.
ScanInt(stream) ==
    IF stream = <<>> THEN [n |-> 0, val |-> 0, rest |-> stream]
    ELSE LET tok  == Head(stream)
             neg  == Len(tok) >= 1 /\ tok[1] = "-"
             from == IF neg THEN 2 ELSE 1
             run  == DigitRun(tok, from)
             mag  == DigitsValue(tok, from, run)
         IN  IF run = 0 THEN [n |-> 0, val |-> 0, rest |-> stream]
             ELSE [n |-> 1, val |-> IF neg THEN 0 - mag ELSE mag,
                   rest |-> Consume(stream, from - 1 + run)]

\* fscanf(f, " %255s", buf): up to 255 characters of the next token.
ScanStr(stream) ==
    IF stream = <<>> THEN [n |-> 0, val |-> <<>>, rest |-> stream]
    ELSE LET tok  == Head(stream)
             used == IF Len(tok) > BUF_CHARS THEN BUF_CHARS ELSE Len(tok)
         IN  [n |-> 1, val |-> SubSeq(tok, 1, used), rest |-> Consume(stream, used)]

(***************************************************************************)
(* ReadPatterns.  The result is what the function leaves in nlanes and     *)
(* patterns, and err: "" when it returns, failAny's message otherwise.     *)
(***************************************************************************)
\* The rows of one pattern, read without looking at their length.
RECURSIVE ReadRows_NoWidthCheck(_, _, _, _, _)
ReadRows_NoWidthCheck(stream, n, plen, j, rows) ==
    IF ~(j < plen) THEN [err |-> "", rows |-> rows, rest |-> stream]
    ELSE LET s == ScanStr(stream)
         IN  IF s.n # 1
             THEN [err |-> "could not read pattern row", rows |-> rows, rest |-> s.rest]
             ELSE ReadRows_NoWidthCheck(s.rest, n, plen, j + 1, Append(rows, s.val))

\* for (int j = 0; j < plen; ++j): the rows of one pattern.
RECURSIVE ReadRows(_, _, _, _, _)
ReadRows(stream, n, plen, j, rows) ==
    IF ~(j < plen) THEN [err |-> "", rows |-> rows, rest |-> stream]
    ELSE LET s == ScanStr(stream)
         IN  IF s.n # 1
             THEN [err |-> "could not read pattern row", rows |-> rows, rest |-> s.rest]
             ELSE IF Len(s.val) # n
             THEN [err |-> "incorrect length of pattern row", rows |-> rows, rest |-> s.rest]
             ELSE ReadRows(s.rest, n, plen, j + 1, Append(rows, s.val))

\* for (int i = 0; ; ++i): the pattern blocks up to the terminating 0.
RECURSIVE ReadBlocks(_, _, _)
ReadBlocks(stream, n, pats) ==
    LET s == ScanInt(stream)
    IN  IF s.n # 1
        THEN [err |-> "could not read pattern length", patterns |-> pats]
        ELSE IF s.val = 0
        THEN [err |-> "", patterns |-> pats]
        ELSE LET r == ReadRows(s.rest, n, s.val, 0, <<>>)
             IN  IF r.err # ""
                 THEN [err |-> r.err, patterns |-> pats]
                 ELSE ReadBlocks(r.rest, n, Append(pats, [rows |-> r.rows]))

ReadPatterns(f, oldNlanes, fcloseOk) ==
    IF ~f.exists
    THEN [err |-> "fopen data/patterns.txt", nlanes |-> oldNlanes, patterns |-> <<>>]
    ELSE LET s == ScanInt(f.tokens)
         IN  IF s.n # 1
             THEN [err |-> "could not read number of lanes",
                   nlanes |-> oldNlanes, patterns |-> <<>>]
             ELSE IF s.val < LANES_MIN \/ LANES_MAX < s.val
             THEN [err |-> "number of lanes out of bounds",
                   nlanes |-> s.val, patterns |-> <<>>]
             ELSE LET b == ReadBlocks(s.rest, s.val, <<>>)
                  IN  IF b.err # ""
                      THEN [err |-> b.err, nlanes |-> s.val, patterns |-> b.patterns]
                      ELSE IF b.patterns = <<>>
                      THEN [err |-> "expected at least one pattern",
                            nlanes |-> s.val, patterns |-> b.patterns]
                      ELSE IF ~fcloseOk
                      THEN [err |-> "fclose", nlanes |-> s.val, patterns |-> b.patterns]
                      ELSE [err |-> "", nlanes |-> s.val, patterns |-> b.patterns]

(***************************************************************************)
(* The level timeline.                                                     *)
(***************************************************************************)
Lanes == 0..(LANES_MAX - 1)

Positions == 0..(LEVEL_LEN - 1)

BandTypes == {BAND_TYPE_NONE, BAND_TYPE_WALL, BAND_TYPE_HURDLE}

\* The zero-initialised global array.
EmptyTimeline == [d \in Lanes |-> [p \in Positions |-> BAND_TYPE_NONE]]

\* incoming[d][p] = v.  A position outside the array is not stored here: oob
\* records that the program wrote there.
WriteCell(inc, d, p, v) ==
    IF d \in Lanes /\ p \in Positions
    THEN [inc EXCEPT ![d] = [@ EXCEPT ![p] = v]]
    ELSE inc

\* The first loop of Restart: every position of the lanes in use becomes None.
ClearLanes(inc, n) ==
    [d \in Lanes |-> IF d < n THEN [p \in Positions |-> BAND_TYPE_NONE] ELSE inc[d]]

\* A placement that starts every row at lane 0.
PlacedLane_FromZero(lane0, dlane, k, n) == (dlane * k + n) % n

\* int d = (lane0 + dlane * k + nlanes) % nlanes
PlacedLane(lane0, dlane, k, n) == (lane0 + dlane * k + n) % n

\* A symbol mapping that stores 'o' as a wall.
PlaceCell_HurdleAsWall(inc, c, d, p) ==
    IF c = "#" \/ c = "o" THEN WriteCell(inc, d, p, BAND_TYPE_WALL) ELSE inc

\* One cell of a row: '#' a wall, 'o' a hurdle, anything else left as it is.
PlaceCell(inc, c, d, p) ==
    IF c = "#" THEN WriteCell(inc, d, p, BAND_TYPE_WALL)
    ELSE IF c = "o" THEN WriteCell(inc, d, p, BAND_TYPE_HURDLE)
    ELSE inc

\* for (int k = 0; k < nlanes; ++k): one row at position p, from lane k on.
RECURSIVE PlaceRow(_, _, _, _, _, _, _)
PlaceRow(inc, row, p, lane0, dlane, n, k) ==
    IF ~(k < n) THEN inc
    ELSE PlaceRow(PlaceCell(inc, row[k + 1], PlacedLane(lane0, dlane, k, n), p),
                  row, p, lane0, dlane, n, k + 1)

\* for (auto row : p.rows) { ...; ++i; }: the rows from index r on, at position p.
RECURSIVE PlaceRows(_, _, _, _, _, _, _)
PlaceRows(inc, rows, r, p, lane0, dlane, n) ==
    IF r > Len(rows) THEN inc
    ELSE PlaceRows(PlaceRow(inc, rows[r], p, lane0, dlane, n, 0),
                   rows, r + 1, p + 1, lane0, dlane, n)

\* A stop test that looks only at where the pattern starts.
LevelFull_StartOnly(pos, nrows) == pos >= LEVEL_LEN

\* A stop test that lets a pattern end exactly at LEVEL_LEN.
LevelFull_Exceeds(pos, nrows) == pos + nrows > LEVEL_LEN

\* if (i + p.rows.size() >= LEVEL_LEN) break;
LevelFull(pos, nrows) == pos + nrows >= LEVEL_LEN

\* A lookup without the upper bound test: incoming[lane][LEVEL_LEN + x] is the
\* memory of incoming[lane + 1][x].
GetIncomingBandType_NoUpperTest(lane, bandNum, off) ==
    LET b == bandNum + off
    IN  IF b < 0 THEN BAND_TYPE_NONE
        ELSE incoming[(lane + b \div LEVEL_LEN) % LANES_MAX][b % LEVEL_LEN]

\* GetIncomingBandType, the offset it reads passed as off.
GetIncomingBandType(lane, bandNum, off) ==
    LET b == bandNum + off
    IN  IF b < 0 \/ LEVEL_LEN <= b THEN BAND_TYPE_NONE ELSE incoming[lane][b]

\* A collision check that lets a hurdle over nothing pass.
CheckCollision_EmptyHurdleSafe(lane, off, hurdling, alive) ==
    LET t == GetIncomingBandType(lane, 0, off)
    IN  IF t = BAND_TYPE_WALL \/ (t = BAND_TYPE_HURDLE /\ ~hurdling)
        THEN FALSE
        ELSE alive

\* A collision check that lets a hurdle clear a wall.
CheckCollision_HurdleClearsWall(lane, off, hurdling, alive) ==
    LET t == GetIncomingBandType(lane, 0, off)
    IN  IF \/ (t = BAND_TYPE_WALL /\ ~hurdling)
           \/ (t = BAND_TYPE_HURDLE /\ ~hurdling)
           \/ (t = BAND_TYPE_NONE /\ hurdling)
        THEN FALSE
        ELSE alive

\* CheckCollision: the value it leaves in playerAlive.
CheckCollision(lane, off, hurdling, alive) ==
    LET t == GetIncomingBandType(lane, 0, off)
    IN  IF \/ t = BAND_TYPE_WALL
           \/ (t = BAND_TYPE_HURDLE /\ ~hurdling)
           \/ (t = BAND_TYPE_NONE /\ hurdling)
        THEN FALSE
        ELSE alive

(***************************************************************************)
(* Control.                                                                *)
(***************************************************************************)
PcValues == {"main", "generating", "sampled", "poll", "quitting", "quit", "exited"}

NoSample == [type |-> -1, lane0 |-> -1, dlane |-> 0]

NoEvent == [type |-> "none", sym |-> "none"]

NoSnapshot == [lane |-> -1, offset |-> -1, alive |-> FALSE]

KeySyms == {"SDLK_BACKSPACE", "SDLK_LEFT", "SDLK_s", "SDLK_RIGHT", "SDLK_f",
            "SDLK_UP", "SDLK_e", "SDLK_DOWN", "SDLK_d", "SDLK_SPACE"}

KeyDownEvent(sym) == [type |-> "SDL_KEYDOWN", sym |-> sym]

QuitEvent == [type |-> "SDL_QUIT", sym |-> "none"]

\* An event update() has no branch for.
OtherEvent == [type |-> "SDL_KEYUP", sym |-> "SDLK_DOWN"]

IsLeft(sym) == sym = "SDLK_LEFT" \/ sym = "SDLK_s"

IsRight(sym) == sym = "SDLK_RIGHT" \/ sym = "SDLK_f"

IsStep(sym) == sym = "SDLK_UP" \/ sym = "SDLK_e"

IsHurdle(sym) == sym = "SDLK_DOWN" \/ sym = "SDLK_d"

IsAction(sym) == IsLeft(sym) \/ IsRight(sym) \/ IsStep(sym) \/ IsHurdle(sym)

\* No pixel has been given its wedge yet.
NoWedges == [w \in {} |-> 0]

Init ==
    /\ file = NoFile
    /\ nlanes = 0
    /\ patterns = <<>>
    /\ incoming = EmptyTimeline
    /\ laneAt = NoWedges
    /\ offset = 0
    /\ playerLane = 0
    /\ playerAlive = FALSE
    /\ playerHurdling = FALSE
    /\ framesSinceAdvance = 0
    /\ droppedFrames = 0
    /\ pc = "main"
    /\ caller = "main"
    /\ i = 0
    /\ sample = NoSample
    /\ e = NoEvent
    /\ ticks = 0
    /\ nextFrame_ms = 0
    /\ frame = "none"
    /\ exitStatus = -1
    /\ failMsg = ""
    /\ prev = NoSnapshot
    /\ oob = FALSE

schedVars == <<ticks, nextFrame_ms, frame, droppedFrames>>

\* The game state as a key handler finds it.
Snapshot == [lane |-> playerLane, offset |-> offset, alive |-> playerAlive]

(***************************************************************************)
(* Precompute.  theta lies in [0, 2*pi], so that the wedge of a pixel,     *)
(* static_cast<int>(theta / (M_PI / nlanes)), is one of 0 .. 2*nlanes.     *)
(***************************************************************************)
\* A lane index that takes the wedges in pairs from wedge 0 on.
LaneOfWedge_NoHalfShift(wedge, n) == (wedge % (2 * n)) \div 2

\* int lane = ((wedge + 1) % (2 * nlanes)) / 2
LaneOfWedge(wedge, n) == ((wedge + 1) % (2 * n)) \div 2

\* The lane Precompute stores for the pixels of each wedge.
Precompute(n) == [w \in 0..(2 * n) |-> LaneOfWedge(w, n)]

(***************************************************************************)
(* Restart.  It reads the catalog, clears the lanes in use and then loops: *)
(* sample a pattern, place it or stop.                                     *)
(***************************************************************************)
\* Restart up to the head of its while (true) loop, called by `from` with the
\* pattern file holding f.  failAny ends the process with status 1.
RestartBegin(from, f, fcloseOk) ==
    \E r \in {ReadPatterns(f, nlanes, fcloseOk)} :
        /\ file' = f
        /\ nlanes' = r.nlanes
        /\ patterns' = r.patterns
        /\ prev' = Snapshot
        /\ failMsg' = r.err
        /\ IF r.err # ""
           THEN /\ pc' = "exited"
                /\ exitStatus' = 1
                /\ UNCHANGED <<incoming, laneAt, i, caller>>
           ELSE /\ pc' = "generating"
                /\ caller' = from
                /\ laneAt' = Precompute(r.nlanes)
                /\ incoming' = ClearLanes(incoming, r.nlanes)
                /\ i' = INTRO_LEN
                /\ UNCHANGED exitStatus
        /\ UNCHANGED <<offset, playerLane, playerAlive, playerHurdling,
                       framesSinceAdvance, sample, oob, schedVars>>

\* Select random pattern, flip, and rotation.
GenSample ==
    /\ pc = "generating"
    /\ \E type \in 0..(Len(patterns) - 1), lane0 \in 0..(nlanes - 1), bit \in 0..1 :
          sample' = [type |-> type, lane0 |-> lane0, dlane |-> -1 + 2 * bit]
    /\ pc' = "sampled"
    /\ UNCHANGED <<file, nlanes, patterns, laneAt, incoming, offset, playerLane, playerAlive,
                   playerHurdling, framesSinceAdvance, caller, i, e, exitStatus, failMsg,
                   prev, oob, schedVars>>

\* An end of Restart that leaves the player in the lane they were in.
RestartEnd_KeepLane ==
    /\ offset' = 0
    /\ playerAlive' = TRUE
    /\ playerHurdling' = FALSE
    /\ framesSinceAdvance' = FSA_BIG
    /\ pc' = "poll"
    /\ IF caller = "main"
       THEN /\ nextFrame_ms' = ticks
            /\ droppedFrames' = 0
       ELSE UNCHANGED <<nextFrame_ms, droppedFrames>>
    /\ UNCHANGED <<playerLane, incoming, i, oob, ticks, frame>>

\* The end of Restart, and main's two statements after its call.
RestartEnd ==
    /\ offset' = 0
    /\ playerLane' = 0
    /\ playerAlive' = TRUE
    /\ playerHurdling' = FALSE
    /\ framesSinceAdvance' = FSA_BIG
    /\ pc' = "poll"
    /\ IF caller = "main"
       THEN /\ nextFrame_ms' = ticks
            /\ droppedFrames' = 0
       ELSE UNCHANGED <<nextFrame_ms, droppedFrames>>
    /\ UNCHANGED <<incoming, i, oob, ticks, frame>>

\* The rest of one pass of the loop: stop, or write the pattern's rows.
GenPlace ==
    /\ pc = "sampled"
    /\ LET rows == patterns[sample.type + 1].rows
       IN  IF LevelFull(i, Len(rows))
           THEN RestartEnd
           ELSE /\ incoming' = PlaceRows(incoming, rows, 1, i, sample.lane0,
                                         sample.dlane, nlanes)
                /\ i' = i + Len(rows)
                /\ oob' = (oob \/ i + Len(rows) > LEVEL_LEN)
                /\ pc' = "generating"
                /\ UNCHANGED <<offset, playerLane, playerAlive, playerHurdling,
                               framesSinceAdvance, schedVars>>
    /\ sample' = NoSample
    /\ UNCHANGED <<file, nlanes, patterns, laneAt, caller, e, exitStatus, failMsg, prev>>

(***************************************************************************)
(* update(): one polled event.                                             *)
(***************************************************************************)
\* An Advance that moves the timeline by two positions.
Advance_SkipsAhead(lane, hurdling) ==
    /\ framesSinceAdvance' = 0
    /\ offset' = offset + 2
    /\ playerAlive' = CheckCollision(lane, offset + 2, hurdling, playerAlive)
    /\ playerHurdling' = FALSE
    /\ playerLane' = lane

\* An Advance that leaves playerHurdling as the key set it.
Advance_KeepHurdling(lane, hurdling) ==
    /\ framesSinceAdvance' = 0
    /\ offset' = offset + 1
    /\ playerAlive' = CheckCollision(lane, offset + 1, hurdling, playerAlive)
    /\ playerHurdling' = hurdling
    /\ playerLane' = lane

\* Advance, with the player in `lane` and playerHurdling = hurdling.
Advance(lane, hurdling) ==
    /\ framesSinceAdvance' = 0
    /\ offset' = offset + 1
    /\ playerAlive' = CheckCollision(lane, offset + 1, hurdling, playerAlive)
    /\ playerHurdling' = FALSE
    /\ playerLane' = lane

\* A rotation that forgets to wrap past the last lane.
RotateLeft_NoWrap(lane, n) == lane + 1

\* playerLane = (playerLane + 1) % nlanes
RotateLeft(lane, n) == (lane + 1) % n

\* A rotation that forgets to wrap below lane 0.
RotateRight_NoWrap(lane, n) == IF lane = 0 THEN 0 ELSE lane - 1

\* playerLane = (playerLane + nlanes - 1) % nlanes
RotateRight(lane, n) == (lane + n - 1) % n

\* The four branches without the if (playerAlive) around them.
PlayerAction_NoAliveGuard(sym) ==
    IF IsLeft(sym) THEN Advance(RotateLeft(playerLane, nlanes), playerHurdling)
    ELSE IF IsRight(sym) THEN Advance(RotateRight(playerLane, nlanes), playerHurdling)
    ELSE IF IsStep(sym) THEN Advance(playerLane, playerHurdling)
    ELSE IF IsHurdle(sym) THEN Advance(playerLane, TRUE)
    ELSE UNCHANGED <<offset, playerLane, playerAlive, playerHurdling, framesSinceAdvance>>

\* The four branches under if (playerAlive).
PlayerAction(sym) ==
    IF playerAlive /\ IsLeft(sym)
    THEN Advance(RotateLeft(playerLane, nlanes), playerHurdling)
    ELSE IF playerAlive /\ IsRight(sym)
    THEN Advance(RotateRight(playerLane, nlanes), playerHurdling)
    ELSE IF playerAlive /\ IsStep(sym) THEN Advance(playerLane, playerHurdling)
    ELSE IF playerAlive /\ IsHurdle(sym) THEN Advance(playerLane, TRUE)
    ELSE UNCHANGED <<offset, playerLane, playerAlive, playerHurdling, framesSinceAdvance>>

\* A key handler that removes the obstacle the player has just met.
KeyDown_EatsCell(sym) ==
    /\ pc = "poll"
    /\ sym # "SDLK_BACKSPACE"
    /\ (playerAlive /\ IsAction(sym)) => offset < MaxOffset
    /\ e' = KeyDownEvent(sym)
    /\ prev' = Snapshot
    /\ PlayerAction(sym)
    /\ incoming' = WriteCell(incoming, playerLane', offset', BAND_TYPE_NONE)
    /\ UNCHANGED <<file, nlanes, patterns, laneAt, pc, caller, i, sample,
                   exitStatus, failMsg, oob, schedVars>>

\* A key other than backspace goes down.
KeyDown(sym) ==
    /\ pc = "poll"
    /\ sym # "SDLK_BACKSPACE"
    /\ (playerAlive /\ IsAction(sym)) => offset < MaxOffset
    /\ e' = KeyDownEvent(sym)
    /\ prev' = Snapshot
    /\ PlayerAction(sym)
    /\ UNCHANGED <<file, nlanes, patterns, laneAt, incoming, pc, caller, i, sample,
                   exitStatus, failMsg, oob, schedVars>>

\* Backspace goes down: Restart(), with the pattern file holding f.
KeyRestart(f, fcloseOk) ==
    /\ pc = "poll"
    /\ e' = KeyDownEvent("SDLK_BACKSPACE")
    /\ RestartBegin("update", f, fcloseOk)

\* main's call of Restart() before its loop.
MainRestart(f, fcloseOk) ==
    /\ pc = "main"
    /\ UNCHANGED e
    /\ RestartBegin("main", f, fcloseOk)

\* An event update() has no branch for.
IgnoredEvent ==
    /\ pc = "poll"
    /\ e' = OtherEvent
    /\ UNCHANGED <<file, nlanes, patterns, laneAt, incoming, offset, playerLane, playerAlive,
                   playerHurdling, framesSinceAdvance, pc, caller, i, sample,
                   exitStatus, failMsg, prev, oob, schedVars>>

\* SDL_QUIT: update() returns true; main finishes this pass of its loop.
Quit ==
    /\ pc = "poll"
    /\ e' = QuitEvent
    /\ pc' = "quitting"
    /\ UNCHANGED <<file, nlanes, patterns, laneAt, incoming, offset, playerLane, playerAlive,
                   playerHurdling, framesSinceAdvance, caller, i, sample,
                   exitStatus, failMsg, prev, oob, schedVars>>

(***************************************************************************)
(* main's loop after update(): the fixed-timestep scheduler.               *)
(***************************************************************************)
\* SDL_TICKS_PASSED(A, B): ((Sint32)((B) - (A)) <= 0).  The Uint32 values wrap
\* after 2^32 ms; the clock here stays below MaxTicks + FRAME_MS, where B - A
\* is its own Sint32 value.
TicksPassed(A, B) == B - A <= 0

\* The frame is neither due nor drawn; SDL_Delay(1) when there is lots of time.
FrameWait(now) ==
    /\ frame' = "wait"
    /\ IF nextFrame_ms >= now + DELAY_GRANULARITY
       THEN ticks' = ticks + 1
       ELSE UNCHANGED ticks
    /\ UNCHANGED <<framesSinceAdvance, nextFrame_ms, droppedFrames>>

\* A scheduler that tests the deadline it has just passed instead of the next one.
FrameDue_OldDeadline(now) ==
    /\ framesSinceAdvance' = framesSinceAdvance + 1
    /\ nextFrame_ms' = nextFrame_ms + FRAME_MS
    /\ IF TicksPassed(now, nextFrame_ms)
       THEN /\ frame' = "drop"
            /\ droppedFrames' = droppedFrames + 1
       ELSE /\ frame' = "render"
            /\ UNCHANGED droppedFrames
    /\ UNCHANGED ticks

\* The frame is due: it is dropped when the next one is due as well, else rendered.
FrameDue(now) ==
    LET next == nextFrame_ms + FRAME_MS
    IN  /\ framesSinceAdvance' = framesSinceAdvance + 1
        /\ nextFrame_ms' = next
        /\ IF TicksPassed(now, next)
           THEN /\ frame' = "drop"
                /\ droppedFrames' = droppedFrames + 1
           ELSE /\ frame' = "render"
                /\ UNCHANGED droppedFrames
        /\ UNCHANGED ticks

\* One pass of the loop from "Uint32 now_ms = SDL_GetTicks()" on, while the clock
\* is below limit.
FramePassWithin(limit) ==
    /\ pc \in {"poll", "quitting"}
    /\ ticks < limit
    /\ LET now_ms == ticks
       IN  IF ~TicksPassed(now_ms, nextFrame_ms) THEN FrameWait(now_ms) ELSE FrameDue(now_ms)
    /\ IF pc = "quitting"
       THEN pc' = "quit" /\ exitStatus' = 0
       ELSE UNCHANGED <<pc, exitStatus>>
    /\ UNCHANGED <<file, nlanes, patterns, laneAt, incoming, offset, playerLane, playerAlive,
                   playerHurdling, caller, i, sample, e, failMsg, prev, oob>>

FramePass == FramePassWithin(MaxTicks)

\* Time passes.
TickSteps == {1, FRAME_MS, 2 * FRAME_MS + 1}

\* The clock moves on by dt, up to limit.
TickWithin(dt, limit) ==
    /\ pc \in {"poll", "quitting"}
    /\ ticks + dt <= limit
    /\ ticks' = ticks + dt
    /\ UNCHANGED <<file, nlanes, patterns, laneAt, incoming, offset, playerLane, playerAlive,
                   playerHurdling, framesSinceAdvance, droppedFrames, pc, caller, i,
                   sample, e, nextFrame_ms, frame, exitStatus, failMsg, prev, oob>>

Tick(dt) == TickWithin(dt, MaxTicks)

\* A tween window that is not cut off at zero.
Tween_NoFloor(fsa) == BAND_SIZE - ANIM_SPEED * fsa

\* int tween = std::max(BAND_SIZE - ANIM_SPEED * framesSinceAdvance, 0)
Tween(fsa) ==
    IF BAND_SIZE - ANIM_SPEED * fsa > 0 THEN BAND_SIZE - ANIM_SPEED * fsa ELSE 0

(***************************************************************************)
(* Pattern files.                                                          *)
(***************************************************************************)
Chars(n, c) == [k \in 1..n |-> c]

\* "5 1 #.... 0": one pattern of one row, a wall in its first lane.
FileWall5 ==
    FileOf(<< <<"5">>, <<"1">>, <<"#">> \o Chars(4, "."), <<"0">> >>)

\* "3 -1 1 o#. 2 #.. .o. 0": a pattern without rows (a negative row count),
\* one of one row and one of two rows.
FileMix3 ==
    FileOf(<< <<"3">>, <<"-", "1">>, <<"1">>, <<"o", "#", ".">>,
              <<"2">>, <<"#", ".", ".">>, <<".", "o", ".">>, <<"0">> >>)

\* "3 -1 0": the only pattern has no rows.
FileNoRows3 == FileOf(<< <<"3">>, <<"-", "1">>, <<"0">> >>)

\* "2 0": too few lanes.
FileBadLanes == FileOf(<< <<"2">>, <<"0">> >>)

\* "3 1 #o# 0": one row, a hurdle between two walls.
FileRing3 == FileOf(<< <<"3">>, <<"1">>, <<"#", "o", "#">>, <<"0">> >>)

\* "4 1 .... 0": four lanes and nothing in them.
FileEmpty4 == FileOf(<< <<"4">>, <<"1">>, Chars(4, "."), <<"0">> >>)

\* "3 1 ooo 0": hurdles in every lane.
FileHurdles3 == FileOf(<< <<"3">>, <<"1">>, Chars(3, "o"), <<"0">> >>)

\* The decimal digits of n < 100.
NumToken(n) ==
    IF n < 10 THEN <<Digits[n + 1]>> ELSE <<Digits[(n \div 10) + 1], Digits[(n % 10) + 1]>>

\* "n 1 .... 0": n lanes and one empty row.
FileLanes(n) == FileOf(<< NumToken(n), <<"1">>, Chars(n, "."), <<"0">> >>)

GameFiles == {FileRing3, FileEmpty4, FileBadLanes, NoFile}

GenFiles == {FileMix3, FileWall5, FileNoRows3}

(***************************************************************************)
(* The game: restarts and keys, the frame loop left out.                   *)
(***************************************************************************)
Next ==
    \/ \E f \in GameFiles, ok \in BOOLEAN : MainRestart(f, ok)
    \/ GenSample
    \/ GenPlace
    \/ \E sym \in KeySyms : KeyDown(sym)
    \/ \E f \in GameFiles, ok \in BOOLEAN : KeyRestart(f, ok)
    \/ IgnoredEvent

Spec == Init /\ [][Next]_vars

(***************************************************************************)
(* The game on the one-wall catalog of five lanes, started once.           *)
(***************************************************************************)
ArrowSyms == {"SDLK_LEFT", "SDLK_RIGHT", "SDLK_UP", "SDLK_DOWN"}

NextScenario ==
    \/ MainRestart(FileWall5, TRUE)
    \/ GenSample
    \/ GenPlace
    \/ \E sym \in ArrowSyms : KeyDown(sym)

SpecScenario == Init /\ [][NextScenario]_vars

(***************************************************************************)
(* Level generation alone: restarts on catalogs of every shape, no play.   *)
(***************************************************************************)
NextGen ==
    \/ \E f \in GenFiles : MainRestart(f, TRUE)
    \/ GenSample
    \/ GenPlace
    \/ \E f \in GenFiles : KeyRestart(f, TRUE)

SpecGen == Init /\ [][NextGen]_vars

\* A pass of the loop whose sample is a pattern that has rows.
GenSampleRows ==
    GenSample /\ Len(patterns[sample'.type + 1].rows) > 0

\* Restart's loop keeps running, and rng() does not avoid a pattern forever.
SpecGenFair ==
    /\ SpecGen
    /\ WF_vars(GenSample)
    /\ WF_vars(GenPlace)
    /\ SF_vars(GenSampleRows)

(***************************************************************************)
(* main's loop on one pattern file, started once, with the clock.          *)
(***************************************************************************)
SchedSyms == {"SDLK_UP", "SDLK_DOWN", "SDLK_LEFT", "SDLK_RIGHT"}

NextSched ==
    \/ MainRestart(FileHurdles3, TRUE)
    \/ GenSample
    \/ GenPlace
    \/ \E sym \in SchedSyms : KeyDown(sym)
    \/ Quit
    \/ FramePass
    \/ \E dt \in TickSteps : Tick(dt)

SpecSched == Init /\ [][NextSched]_vars


(***************************************************************************)
(* Restart on a catalog of every lane count the parser accepts.            *)
(***************************************************************************)
NextGeom ==
    \/ \E n \in LANES_MIN..LANES_MAX : MainRestart(FileLanes(n), TRUE)
    \/ GenSample
    \/ GenPlace

SpecGeom == Init /\ [][NextGeom]_vars

(***************************************************************************)
(* The slide-in animation: steps on an empty level and a clock that moves  *)
(* by whole frame periods, long enough for the animation to run out.       *)
(***************************************************************************)
NextAnim ==
    \/ MainRestart(FileEmpty4, TRUE)
    \/ GenSample
    \/ GenPlace
    \/ KeyDown("SDLK_UP")
    \/ FramePassWithin(MaxAnimTicks)
    \/ TickWithin(FRAME_MS, MaxAnimTicks)

SpecAnim == Init /\ [][NextAnim]_vars

(***************************************************************************)
(* ReadPatterns alone, on every file of at most MaxTokens tokens.          *)
(***************************************************************************)
\* "3", "17", "0", "1", "2", "-1", "#.o" and "1#.o"
LoadTokens ==
    { <<"3">>, <<"1", "7">>, <<"0">>, <<"1">>, <<"2">>, <<"-", "1">>, <<"#", ".", "o">>,
      <<"1", "#", ".", "o">> }

LoadFiles ==
    {NoFile} \cup {FileOf(s) : s \in UNION {[1..n -> LoadTokens] : n \in 0..MaxTokens}}

NextLoad == pc = "main" /\ \E f \in LoadFiles, ok \in BOOLEAN : MainRestart(f, ok)

SpecLoad == Init /\ [][NextLoad]_vars

(***************************************************************************)
(* Steps of the game, as the properties below pick them out.               *)
(***************************************************************************)
\* This step handles a key-down event of update()'s event loop.
KeyStep == pc = "poll" /\ pc' = "poll" /\ e'.type = "SDL_KEYDOWN" /\ prev' = Snapshot

\* This step calls Advance().
AdvanceStep == KeyStep /\ offset' = offset + 1

\* The last key handled called Advance() (the state before it is in prev).
Advanced == pc = "poll" /\ e.type = "SDL_KEYDOWN" /\ offset = prev.offset + 1

\* C1: every Advance made while alive leaves the player dead exactly when the cell
\* at the player's lane (after the rotation) and the incremented offset is a Wall,
\* or a Hurdle and the key did not ask to hurdle, or None and the key did.
C1_CollisionTruthTable ==
    [][(AdvanceStep /\ playerAlive) =>
         LET t == GetIncomingBandType(playerLane', 0, offset')
             h == IsHurdle(e'.sym)
         IN  /\ t \in BandTypes
             /\ (~playerAlive') <=> \/ t = BAND_TYPE_WALL
                                    \/ (t = BAND_TYPE_HURDLE /\ ~h)
                                    \/ (t = BAND_TYPE_NONE /\ h)]_vars

\* A hurdle over a Hurdle cell was survived.
C1_Witness ==
    /\ Advanced /\ prev.alive /\ IsHurdle(e.sym) /\ playerAlive
    /\ GetIncomingBandType(playerLane, 0, offset) = BAND_TYPE_HURDLE

\* C2: while dead, the four player keys call no Advance and change none of offset,
\* playerLane, playerHurdling, playerAlive, framesSinceAdvance; playerAlive turns
\* true only at the end of Restart; and backspace is handled (Restart is called)
\* whenever update() polls, dead or alive.
C2_DeadIsTerminal ==
    [][/\ (KeyStep /\ ~playerAlive /\ IsAction(e'.sym)) =>
            UNCHANGED <<offset, playerLane, playerHurdling, playerAlive,
                        framesSinceAdvance>>
       /\ (~playerAlive /\ playerAlive') => (pc = "sampled" /\ pc' = "poll")
       /\ (pc = "poll") => ENABLED KeyRestart(NoFile, TRUE)]_vars

\* An action key was handled while dead, past the start of the level.
C2_Witness ==
    /\ pc = "poll" /\ e.type = "SDL_KEYDOWN" /\ IsAction(e.sym)
    /\ ~prev.alive /\ ~playerAlive /\ offset > 0 /\ prev = Snapshot

\* C3: when a Restart has returned, whatever the state it was called in,
\* offset = 0, playerLane = 0, playerAlive and not playerHurdling.
C3_RestartResets ==
    (pc = "poll" /\ e \in {NoEvent, KeyDownEvent("SDLK_BACKSPACE")}) =>
        /\ offset = 0
        /\ playerLane = 0
        /\ playerAlive
        /\ ~playerHurdling

\* Backspace restarted a dead player who was past the intro in another lane.
C3_Witness ==
    /\ pc = "poll" /\ e = KeyDownEvent("SDLK_BACKSPACE")
    /\ ~prev.alive /\ prev.offset > INTRO_LEN /\ prev.lane # 0
    /\ offset = 0 /\ playerLane = 0 /\ playerAlive

\* The two rotation keys, one after the other, in either order.
OppositeRotations(first, second) ==
    (IsLeft(first) /\ IsRight(second)) \/ (IsRight(first) /\ IsLeft(second))

\* The two lane maps stay in range and undo each other, for every lane count.
LaneMapsInverse ==
    \A n \in LANES_MIN..LANES_MAX : \A L \in 0..(n - 1) :
        /\ RotateLeft(L, n) \in 0..(n - 1)
        /\ RotateRight(L, n) \in 0..(n - 1)
        /\ RotateRight(RotateLeft(L, n), n) = L
        /\ RotateLeft(RotateRight(L, n), n) = L

\* C4 as stated: after a rotation handled while alive, the opposite rotation ends in
\* the lane the player started from, with offset grown by 2.
C4_Original ==
    [][(Advanced /\ prev.alive /\ KeyStep /\ OppositeRotations(e.sym, e'.sym)) =>
         (playerLane' = prev.lane /\ offset' = prev.offset + 2)]_vars

\* C4, amended: the opposite rotation ends in the starting lane with offset grown by
\* 2 when the player survived the first rotation; when the first rotation killed the
\* player the second key does nothing.  The two lane maps are inverse to each other
\* for every lane count and lane.
C4_RotationsInverse ==
    [][/\ (Advanced /\ prev.alive /\ KeyStep /\ OppositeRotations(e.sym, e'.sym)) =>
            IF playerAlive
            THEN playerLane' = prev.lane /\ offset' = prev.offset + 2
            ELSE playerLane' = playerLane /\ offset' = prev.offset + 1
       /\ LaneMapsInverse]_vars

\* A right rotation wrapped from lane 0 to the last lane and was survived, with
\* room for the left rotation that undoes it.
C4_Witness ==
    /\ Advanced /\ prev.alive /\ IsRight(e.sym) /\ playerAlive
    /\ prev.lane = 0 /\ playerLane = nlanes - 1 /\ offset < MaxOffset

\* C5: in every timeline under construction or built, every lane is None at the
\* positions below INTRO_LEN, the write position stays within INTRO_LEN..LEVEL_LEN
\* and no row was written at a position outside the array.
C5_IntroClearNoOverrun ==
    /\ \A d \in Lanes : \A p \in 0..(INTRO_LEN - 1) : incoming[d][p] = BAND_TYPE_NONE
    /\ ~oob
    /\ pc \in {"generating", "sampled", "poll"} => i \in INTRO_LEN..LEVEL_LEN

\* A level was built with something in its last writable position.
C5_Witness ==
    /\ pc = "poll"
    /\ \E d \in 0..(nlanes - 1) : incoming[d][LEVEL_LEN - 2] # BAND_TYPE_NONE

\* The number of rows of the pattern sampled in this pass of Restart's loop.
SampledRows == Len(patterns[sample.type + 1].rows)

\* The lanes in use are None from position p up to the end of the level.
NoneFrom(inc, p) ==
    \A d \in 0..(nlanes - 1) : \A q \in p..(LEVEL_LEN - 1) : inc[d][q] = BAND_TYPE_NONE

\* C6 as stated: the sampled pattern is placed whenever i + r does not exceed
\* LEVEL_LEN, and generation stops, with None from i on, when it does.
C6_Original ==
    [][pc = "sampled" =>
         IF i + SampledRows <= LEVEL_LEN
         THEN pc' = "generating" /\ i' = i + SampledRows
         ELSE pc' = "poll" /\ incoming' = incoming /\ NoneFrom(incoming', i)]_vars

\* C6, amended: the sampled pattern is placed when i + r < LEVEL_LEN; generation
\* stops at the first sample with i + r >= LEVEL_LEN, also when the pattern would
\* end exactly at LEVEL_LEN, and the lanes are None from i up to LEVEL_LEN.
C6_StopsAtLevelEnd ==
    [][pc = "sampled" =>
         IF i + SampledRows < LEVEL_LEN
         THEN pc' = "generating" /\ i' = i + SampledRows
         ELSE pc' = "poll" /\ incoming' = incoming /\ NoneFrom(incoming', i)]_vars

\* Generation on the catalog of one one-row pattern stopped with one position left:
\* the sample it stopped at would have ended exactly at LEVEL_LEN.
C6_Witness ==
    /\ pc = "poll" /\ file = FileWall5 /\ i = LEVEL_LEN - 1
    /\ NoneFrom(incoming, i)

\* The token is an integer and nothing else.
PureInt(tok) == LET s == ScanInt(<<tok>>) IN s.n = 1 /\ s.rest = <<>>

IntOf(tok) == ScanInt(<<tok>>).val

\* The file starts with a lane count within bounds.
LaneCountOk(f) ==
    /\ f.tokens # <<>>
    /\ PureInt(f.tokens[1])
    /\ IntOf(f.tokens[1]) \in LANES_MIN..LANES_MAX

\* The file starts with a lane count out of bounds.
LaneCountOut(f) ==
    /\ f.tokens # <<>>
    /\ PureInt(f.tokens[1])
    /\ IntOf(f.tokens[1]) \notin LANES_MIN..LANES_MAX

\* The row count 0 comes right after the lane count.
EmptyCatalog(f) ==
    LaneCountOk(f) /\ Len(f.tokens) >= 2 /\ PureInt(f.tokens[2]) /\ IntOf(f.tokens[2]) = 0

\* Where the row counts of the pattern blocks stand, from token h on: a block of
\* R > 0 rows takes R tokens after its count, one of R < 0 none.
RECURSIVE BlockHeaders(_, _)
BlockHeaders(toks, h) ==
    IF h > Len(toks) THEN {}
    ELSE LET s == ScanInt(<<toks[h]>>)
         IN  IF s.n # 1 \/ s.rest # <<>> \/ s.val = 0 THEN {}
             ELSE {h} \cup BlockHeaders(toks, h + 1 + (IF s.val > 0 THEN s.val ELSE 0))

\* Some row of some block is missing, or is not as long as the lane count.
RowBad(f) ==
    /\ LaneCountOk(f)
    /\ LET n == IntOf(f.tokens[1])
           heads == BlockHeaders(f.tokens, 2)
       IN  \E h \in heads : \E q \in (h + 1)..(h + IntOf(f.tokens[h])) :
              q > Len(f.tokens) \/ Len(f.tokens[q]) # n

\* No token holds the digit 0, or there is no token at all: the terminating row
\* count cannot be read.
NoTerminator(f) == \A k \in 1..Len(f.tokens) : \A c \in 1..Len(f.tokens[k]) : f.tokens[k][c] # "0"

\* C7: the load ends the process with a message and status 1, the game state as it
\* was, when the file is missing, the lane count is out of bounds, a row is missing
\* or of the wrong length, the row count 0 comes first, or the terminating token is
\* missing; and a load that returns leaves a lane count within bounds and a
\* non-empty catalog whose rows all have nlanes characters.
C7_LoadFatalOrWellFormed ==
    pc # "main" =>
      /\ (~file.exists \/ LaneCountOut(file) \/ EmptyCatalog(file) \/ RowBad(file)
            \/ NoTerminator(file)) =>
           /\ pc = "exited" /\ exitStatus = 1 /\ failMsg # ""
           /\ incoming = EmptyTimeline /\ ~playerAlive /\ offset = 0 /\ i = 0
      /\ pc # "exited" =>
           /\ failMsg = "" /\ exitStatus = -1
           /\ nlanes \in LANES_MIN..LANES_MAX
           /\ patterns # <<>>
           /\ \A t \in 1..Len(patterns) : \A r \in 1..Len(patterns[t].rows) :
                Len(patterns[t].rows[r]) = nlanes

\* The load read one pattern and then failed on a row of the wrong length.
C7_Witness ==
    /\ pc = "exited" /\ failMsg = "incorrect length of pattern row"
    /\ Len(patterns) >= 1 /\ RowBad(file)

\* The level of scenarios A and B: five lanes, the catalog of the one row "#....",
\* placed right after the intro from lane 2 on.
ScenarioA ==
    /\ pc = "poll" /\ nlanes = 5
    /\ patterns = << [rows |-> << <<"#", ".", ".", ".", ".">> >>] >>
    /\ incoming[2][INTRO_LEN] = BAND_TYPE_WALL
    /\ \A d \in {0, 1, 3, 4} : incoming[d][INTRO_LEN] = BAND_TYPE_NONE

\* This step is a hurdle made while alive in the level of scenario A.
HurdleStep == ScenarioA /\ playerAlive /\ AdvanceStep /\ IsHurdle(e'.sym)

\* C8 as stated: in scenario A's level a hurdle in lane 2 that brings offset to
\* INTRO_LEN is survived, and one that brings it to INTRO_LEN - 1 or INTRO_LEN + 1
\* is fatal.
C8_Original ==
    [][(HurdleStep /\ playerLane' = 2) =>
         /\ offset' = INTRO_LEN => playerAlive'
         /\ offset' \in {INTRO_LEN - 1, INTRO_LEN + 1} => ~playerAlive']_vars

\* C8, amended: in scenario A's level a hurdle in lane 2 that brings offset to
\* INTRO_LEN is fatal, the cell being a Wall; so is one that brings offset to
\* INTRO_LEN - 1, and so is a hurdle that brings offset to INTRO_LEN + 1, in
\* whatever lane the player is.
C8_HurdleAtWallDies ==
    [][/\ (HurdleStep /\ playerLane' = 2 /\ offset' \in {INTRO_LEN - 1, INTRO_LEN}) =>
            ~playerAlive'
       /\ (HurdleStep /\ offset' = INTRO_LEN + 1) => ~playerAlive']_vars

\* The player hurdled in lane 2 onto the wall at INTRO_LEN and died.
C8_Witness ==
    /\ ScenarioA /\ Advanced /\ IsHurdle(e.sym)
    /\ prev = [lane |-> 2, offset |-> INTRO_LEN - 1, alive |-> TRUE]
    /\ playerLane = 2 /\ offset = INTRO_LEN /\ ~playerAlive

\* C9: the row "#...." placed at INTRO_LEN with lane0 = 2 and direction 1 leaves a
\* Wall in lane 2 and None in lanes 0, 1, 3, 4 at that position; in that level a
\* step in lane 2 that brings offset to INTRO_LEN is fatal, and every rotation or
\* step made while alive that leaves offset below INTRO_LEN is survived.
C9_WallScenario ==
    [][/\ (pc = "sampled" /\ nlanes = 5 /\ i = INTRO_LEN
             /\ sample.lane0 = 2 /\ sample.dlane = 1) =>
            /\ incoming'[2][INTRO_LEN] = BAND_TYPE_WALL
            /\ \A d \in {0, 1, 3, 4} : incoming'[d][INTRO_LEN] = BAND_TYPE_NONE
       /\ (ScenarioA /\ playerAlive /\ AdvanceStep /\ IsStep(e'.sym)
             /\ playerLane = 2 /\ offset' = INTRO_LEN) =>
            ~playerAlive'
       /\ (ScenarioA /\ playerAlive /\ AdvanceStep /\ ~IsHurdle(e'.sym)
             /\ offset' < INTRO_LEN) =>
            playerAlive']_vars

\* The player, moved to lane 2 within the intro, stepped onto the wall and died.
C9_Witness ==
    /\ ScenarioA /\ Advanced /\ IsStep(e.sym)
    /\ prev = [lane |-> 2, offset |-> INTRO_LEN - 1, alive |-> TRUE]
    /\ playerLane = 2 /\ offset = INTRO_LEN /\ ~playerAlive

\* This step is a pass of main's loop that found the frame due.
DuePass == pc \in {"poll", "quitting"} /\ nextFrame_ms' # nextFrame_ms

\* C10: a pass of the loop moves the deadline only when the clock has reached it,
\* and then by FRAME_MS, counting the frame; the frame is rendered when the clock
\* has not reached the next deadline, so it is less than FRAME_MS behind the clock,
\* with the drop counter left alone; otherwise it is dropped and the counter grows
\* by one.  Nothing is rendered or dropped, and the counter does not grow, in any
\* other step.
C10_FixedTimestep ==
    [][/\ DuePass =>
            /\ TicksPassed(ticks, nextFrame_ms)
            /\ nextFrame_ms' = nextFrame_ms + FRAME_MS
            /\ framesSinceAdvance' = framesSinceAdvance + 1
            /\ IF TicksPassed(ticks, nextFrame_ms + FRAME_MS)
               THEN frame' = "drop" /\ droppedFrames' = droppedFrames + 1
               ELSE /\ frame' = "render" /\ droppedFrames' = droppedFrames
                    /\ ticks - nextFrame_ms \in 0..(FRAME_MS - 1)
       /\ (frame' # frame /\ frame' \in {"render", "drop"}) => DuePass
       /\ (frame' # frame /\ frame' = "wait") =>
            (~TicksPassed(ticks, nextFrame_ms) /\ nextFrame_ms' = nextFrame_ms)
       /\ droppedFrames' > droppedFrames => DuePass]_vars

\* A frame was rendered after the scheduler had dropped frames to catch up.
C10_Witness ==
    /\ frame = "render" /\ droppedFrames >= 2
    /\ ticks - (nextFrame_ms - FRAME_MS) \in 0..(FRAME_MS - 1)

\* The cell type a pattern symbol stands for.
SymbolType(c) ==
    IF c = "#" THEN BAND_TYPE_WALL ELSE IF c = "o" THEN BAND_TYPE_HURDLE ELSE BAND_TYPE_NONE

\* For every lane count, start lane and direction, k -> (lane0 + d*k) mod n as the
\* code computes it is the mathematical residue and maps 0..n-1 onto 0..n-1.
PlacedLaneBijection ==
    \A n \in LANES_MIN..LANES_MAX : \A lane0 \in 0..(n - 1) : \A d \in {-1, 1} :
        /\ \A k \in 0..(n - 1) :
              /\ PlacedLane(lane0, d, k, n) \in 0..(n - 1)
              /\ \E q \in -1..1 : PlacedLane(lane0, d, k, n) = lane0 + d * k + q * n
        /\ {PlacedLane(lane0, d, k, n) : k \in 0..(n - 1)} = 0..(n - 1)

\* C11: a pass of the loop that places the sampled pattern leaves, for each of its
\* rows r at position i + r - 1 and each k, the type of row[k] in lane
\* (lane0 + d*k) mod nlanes (None for a symbol other than '#' and 'o'), and leaves
\* every other cell as it was; the lane map is a bijection on the lanes with results
\* in [0, nlanes); every cell of the timeline is None, Wall or Hurdle.
C11_MirroredRotation ==
    [][/\ (pc = "sampled" /\ pc' = "generating") =>
            LET rows == patterns[sample.type + 1].rows
                Lane(k) == PlacedLane(sample.lane0, sample.dlane, k, nlanes)
            IN  /\ \A r \in 1..Len(rows) : \A k \in 0..(nlanes - 1) :
                      incoming'[Lane(k)][i + r - 1] = SymbolType(rows[r][k + 1])
                /\ \A d \in Lanes : \A q \in Positions :
                      (d >= nlanes \/ q < i \/ q >= i + Len(rows)) =>
                          incoming'[d][q] = incoming[d][q]
       /\ PlacedLaneBijection
       /\ \A d \in Lanes : \A q \in Positions : incoming'[d][q] \in BandTypes]_vars

\* The row "o#." was placed mirrored from lane 0: the hurdle in lane 0, the wall
\* wrapped round to lane 2.
C11_Witness ==
    /\ pc = "generating" /\ file = FileMix3
    /\ \E q \in INTRO_LEN..(LEVEL_LEN - 1) :
          /\ incoming[0][q] = BAND_TYPE_HURDLE
          /\ incoming[2][q] = BAND_TYPE_WALL
          /\ incoming[1][q] = BAND_TYPE_NONE

\* C12: playerHurdling is false before and after every step of the program (every
\* key handled, every pass of the frame loop, every render), and a step key is
\* checked as not hurdling whatever the keys before it were: stepping onto a
\* Hurdle is fatal.
C12_HurdlingFlagTransient ==
    [][/\ ~playerHurdling
       /\ ~playerHurdling'
       /\ (AdvanceStep /\ playerAlive /\ IsStep(e'.sym)
             /\ GetIncomingBandType(playerLane', 0, offset') = BAND_TYPE_HURDLE) =>
            ~playerAlive']_vars

\* The player cleared the hurdle at INTRO_LEN by hurdling, then stepped onto the
\* next one and died: the request did not carry over.
C12_Witness ==
    /\ Advanced /\ IsStep(e.sym) /\ prev.alive /\ ~playerAlive /\ ~playerHurdling
    /\ offset = INTRO_LEN + 1
    /\ incoming[playerLane][INTRO_LEN] = BAND_TYPE_HURDLE
    /\ incoming[playerLane][INTRO_LEN + 1] = BAND_TYPE_HURDLE

\* C13: a rotate, step or hurdle key handled while alive grows offset by exactly 1
\* and moves playerLane by +1 mod nlanes (left), -1 mod nlanes (right) or not at all
\* (step, hurdle); any other key, backspace included, makes no Advance; offset
\* changes in no other way except that the end of Restart sets it to 0.
C13_OneAdvancePerInput ==
    [][/\ (KeyStep /\ playerAlive /\ IsAction(e'.sym)) =>
            /\ offset' = offset + 1
            /\ IsLeft(e'.sym) => playerLane' = (playerLane + 1) % nlanes
            /\ IsRight(e'.sym) => playerLane = (playerLane' + 1) % nlanes
            /\ (IsStep(e'.sym) \/ IsHurdle(e'.sym)) => playerLane' = playerLane
       /\ (KeyStep /\ ~IsAction(e'.sym)) => UNCHANGED <<offset, playerLane>>
       /\ (pc = "poll" /\ e' = KeyDownEvent("SDLK_BACKSPACE")) => offset' = offset
       /\ offset' # offset =>
            \/ (offset' = offset + 1 /\ KeyStep /\ playerAlive /\ IsAction(e'.sym))
            \/ (offset' = 0 /\ pc = "sampled" /\ pc' = "poll")]_vars

\* A left rotation made while alive in the last lane wrapped to lane 0, with offset
\* grown by 1.
C13_Witness ==
    /\ Advanced /\ IsLeft(e.sym) /\ prev.alive
    /\ prev.lane = nlanes - 1 /\ playerLane = 0 /\ prev.offset >= 1

\* C14: whenever update() polls for an event, that is after every key handled and
\* every Restart that returned, nlanes is within LANES_MIN..LANES_MAX and playerLane
\* within 0..nlanes-1; nlanes is within bounds during the generation of a level too.
C14_LaneInRange ==
    /\ pc \in {"generating", "sampled", "poll"} => nlanes \in LANES_MIN..LANES_MAX
    /\ pc = "poll" => playerLane \in 0..(nlanes - 1)

\* Backspace reloaded a catalog of three lanes while the player was in lane 3 of a
\* four-lane level.
C14_Witness ==
    /\ pc = "poll" /\ e = KeyDownEvent("SDLK_BACKSPACE")
    /\ prev.lane = 3 /\ nlanes = 3 /\ playerLane = 0

\* This step is a pass of main's frame loop: it waits, drops the frame or renders.
FrameStep ==
    /\ pc \in {"poll", "quitting"}
    /\ (frame' # frame \/ nextFrame_ms' # nextFrame_ms)

\* C15: a key handled by update(), with its Advance and collision check, changes no
\* cell of the timeline, and neither does a pass of the frame loop, rendering or
\* not; the cells change only in steps of Restart; and after an Advance every
\* lookup reads the cell one band further than it read before.
C15_TimelineReadOnly ==
    [][/\ KeyStep => incoming' = incoming
       /\ FrameStep => incoming' = incoming
       /\ incoming' # incoming => (pc \in {"main", "poll", "sampled"} /\ pc' = "generating")
       /\ AdvanceStep =>
            \A d \in 0..(nlanes - 1) : \A b \in -1..LEVEL_LEN :
                GetIncomingBandType(d, b, offset') = GetIncomingBandType(d, b + 1, offset)]_vars

\* A frame was rendered after the player had cleared the hurdle at INTRO_LEN, and
\* the hurdle is still in the timeline.
C15_Witness ==
    /\ pc = "poll" /\ frame = "render" /\ playerAlive /\ offset = INTRO_LEN
    /\ framesSinceAdvance \in 1..(FSA_BIG - 1)
    /\ incoming[playerLane][INTRO_LEN] = BAND_TYPE_HURDLE

\* The number of animation ticks after which the tween window is used up.
AnimTicks == BAND_SIZE \div ANIM_SPEED

\* C16: the tween window is BAND_SIZE right after an Advance; every frame that is
\* due, rendered or dropped, takes ANIM_SPEED off it until it is zero; it is
\* BAND_SIZE - ANIM_SPEED * t after t < BAND_SIZE/ANIM_SPEED ticks and zero from
\* BAND_SIZE/ANIM_SPEED ticks on; it grows in no step but an Advance.
C16_TweenShrinks ==
    [][/\ (AdvanceStep /\ playerAlive) => Tween(framesSinceAdvance') = BAND_SIZE
       /\ DuePass =>
            /\ framesSinceAdvance' = framesSinceAdvance + 1
            /\ Tween(framesSinceAdvance') =
                  (IF Tween(framesSinceAdvance) >= ANIM_SPEED
                   THEN Tween(framesSinceAdvance) - ANIM_SPEED ELSE 0)
       /\ Tween(framesSinceAdvance') > Tween(framesSinceAdvance) =>
            (AdvanceStep /\ playerAlive)
       /\ Tween(framesSinceAdvance') \in 0..BAND_SIZE
       /\ framesSinceAdvance' < AnimTicks =>
            Tween(framesSinceAdvance') = BAND_SIZE - ANIM_SPEED * framesSinceAdvance'
       /\ framesSinceAdvance' >= AnimTicks => Tween(framesSinceAdvance') = 0]_vars

\* A frame was rendered one tick after the window of the last Advance had run out.
C16_Witness ==
    /\ Advanced /\ prev.alive /\ frame = "render"
    /\ framesSinceAdvance = AnimTicks + 1 /\ Tween(framesSinceAdvance) = 0

\* C17: once Restart has read a catalog and entered its placement loop, the loop
\* reaches its stop condition and Restart returns.
C17_GenerationTerminates == (pc = "generating") ~> (pc = "poll")

\* C18: for every lane in use and every band render or CheckCollision can ask for,
\* -1 included, the lookup reads the cell at bandNum + offset when that is a position
\* of the array and yields None when it is negative or LEVEL_LEN or more; an Advance
\* made while alive that brings offset to LEVEL_LEN or beyond is survived exactly
\* when the key is not a hurdle.
C18_LookupsInBounds ==
    [][/\ pc' = "poll" =>
            \A d \in 0..(nlanes' - 1) : \A b \in -1..(MaxBand + 1) :
                GetIncomingBandType(d, b, offset)' =
                    (IF b + offset' \in Positions THEN incoming'[d][b + offset']
                     ELSE BAND_TYPE_NONE)
       /\ (AdvanceStep /\ playerAlive /\ offset' >= LEVEL_LEN) =>
            (playerAlive' <=> ~IsHurdle(e'.sym))]_vars

\* The player stepped past the end of the level alive and then died on a hurdle.
C18_Witness ==
    /\ Advanced /\ IsHurdle(e.sym) /\ prev.alive /\ ~playerAlive
    /\ prev.offset = LEVEL_LEN /\ offset = LEVEL_LEN + 1

\* C19: after Precompute, for the lane count n read, every wedge 0 .. 2n has a lane
\* within 0 .. n-1; among the wedges 0 .. 2n-1 lane j is the lane of exactly the
\* two wedges 2j-1 (2n-1 for j = 0) and 2j; and wedge 2n has lane 0, as wedge 0.
C19_LaneOfWedge ==
    pc \in {"generating", "sampled", "poll"} =>
        /\ nlanes \in LANES_MIN..LANES_MAX
        /\ DOMAIN laneAt = 0..(2 * nlanes)
        /\ \A w \in 0..(2 * nlanes) : laneAt[w] \in 0..(nlanes - 1)
        /\ \A j \in 0..(nlanes - 1) :
              {w \in 0..(2 * nlanes - 1) : laneAt[w] = j} =
                  {(2 * j - 1 + 2 * nlanes) % (2 * nlanes), 2 * j}
        /\ laneAt[2 * nlanes] = 0

\* With LANES_MAX lanes, the last wedge before the full turn belongs to lane 0 and
\* wedge 1 to lane 1.
C19_Witness ==
    /\ pc = "poll" /\ nlanes = LANES_MAX
    /\ laneAt[2 * LANES_MAX - 1] = 0 /\ laneAt[0] = 0 /\ laneAt[1] = 1

====
